---- MODULE Spec2Model ----
(***************************************************************************)
(* A model of tiny-run-router's backend: the street graph (data.py), the   *)
(* bounded shortest-path engine and the constrained loop search            *)
(* (routing.py), and the snap query and the shared graph (main.py).        *)
(*                                                                         *)
(* Numbers.  The code computes in floats; the model computes in integers.  *)
(* Distances and elevations are whole metres.  A node id is a natural      *)
(* number: 0 stands for "home" and k for "n<k>", which keeps the order of  *)
(* the ids' strings ("home" < "n1" < "n2" ...).                            *)
(***************************************************************************)
EXTENDS Integers, Sequences, FiniteSets, TLC

VARIABLES
    \* build_graph (data.py)
    nodes,          \* nodes: Dict[str, Node]
    adjacency,      \* adjacency: Dict[str, List[Edge]]
    connections,    \* the raw connections G.edges has yielded so far
    added,          \* the calls of _add_undirected_edge made so far
    \* _dijkstra and _reconstruct_path (routing.py)
    graph,          \* graph: Graph
    start,          \* start: the source node
    max_dist,       \* max_dist: the cutoff
    edge_penalty,   \* edge_penalty: Dict[(str, str), float]
    dist,           \* dist: Dict[str, float]
    prev,           \* prev: Dict[str, Optional[str]]
    heap,           \* heap: the (distance, node) pairs of the priority queue
    target,         \* target of _reconstruct_path
    path,           \* path: List[str]
    cur,            \* cur: Optional[str]
    \* find_best_loop (routing.py)
    d_min_m,        \* d_min_m
    d_max_m,        \* d_max_m
    elev_limit_m,   \* elev_limit_m
    target_m,       \* target_m
    dist_fw,        \* dist_fw
    prev_fw,        \* prev_fw
    candidates,     \* candidates: List[(float, str)]
    next_candidate, \* the index in candidates of the for loop's next turn
    best,           \* best: Optional[RouteResult]
    tried,          \* what each turn of the for loop has come to, in order
    runs,           \* the number of _dijkstra runs so far
    \* snap_route (main.py)
    graph_center_lat,   \* graph_center_lat
    graph_center_lon,   \* graph_center_lon
    pts,            \* pts = req.points
    dense_pts,      \* dense_pts
    segments,       \* segments
    snapped_dense,  \* snapped_dense, before its ends are set
    response,       \* the points of the SnapManyResponse
    \* the requests main.py serves at the same time, and the objects they share
    objects,        \* the nodes and adjacency dicts build_graph has made, by call
    tkind,          \* the handler each worker thread runs
    treq,           \* start_lat, start_lon of each thread's request
    tpc,            \* where each thread stands
    todo,           \* the reads of globals each thread's current loop has left
    tbuild,         \* each thread's call of build_graph: its dicts, its loops
    treads,         \* the reads of globals each thread has made, in order
    published,      \* what each Graph held when it was stored in graph
    pc              \* where the running function stands

buildVars == <<nodes, adjacency, connections, added>>
dijkstraVars == <<max_dist, edge_penalty, dist, prev, heap, target, path, cur>>

loopVars == <<d_min_m, d_max_m, elev_limit_m, target_m, dist_fw, prev_fw, candidates,
              next_candidate, best, tried, runs>>

snapVars == <<graph_center_lat, graph_center_lon, pts, dense_pts, segments,
              snapped_dense, response>>

sharedVars == <<objects, tkind, treq, tpc, todo, tbuild, treads, published>>

vars == <<buildVars, graph, start, dijkstraVars, loopVars, snapVars, sharedVars, pc>>

\* the variables the actions of a specification leave alone
offGraph == <<graph, start, dijkstraVars, loopVars, snapVars, sharedVars, pc>>
offDijkstra == <<buildVars, loopVars, snapVars, sharedVars>>
offLoop == <<buildVars, dijkstraVars, snapVars, sharedVars>>
offSnap == <<buildVars, start, dijkstraVars, loopVars, sharedVars>>
offShared == <<buildVars, start, dijkstraVars, loopVars, pts, dense_pts, segments,
               snapped_dense, response, pc>>

(***************************************************************************)
(* Bounds of the model.                                                    *)
(***************************************************************************)
MaxNode == 2
MaxLength == 3
MaxElev == 1
MaxConnections == 2
MaxStreets == 3
MaxBudget == 4

NodeIds == 0..MaxNode
Lengths == 1..MaxLength
Elevations == 0..MaxElev

Max(a, b) == IF a >= b THEN a ELSE b
Min(a, b) == IF a <= b THEN a ELSE b

(***************************************************************************)
(* data.py: Node, Edge, Graph                                              *)
(***************************************************************************)
Node(id, lat, lon, elevation) ==
    [id |-> id, lat |-> lat, lon |-> lon, elevation |-> elevation]

Edge(u, v, distance_m, road_type, elevation_gain_m) ==
    [u |-> u, v |-> v, distance_m |-> distance_m, road_type |-> road_type,
     elevation_gain_m |-> elevation_gain_m]

Graph(ns, adj) == [nodes |-> ns, adjacency |-> adj]

\* the highway tags the model feeds to _classify_road_type
Highways == {"primary", "residential", "footway"}

classify_road_type(highway) ==
    IF highway \in {"motorway", "trunk", "primary"} THEN "main_road"
    ELSE IF highway \in {"secondary", "tertiary", "unclassified", "residential",
                         "living_street", "service"} THEN "residential"
    ELSE "path"

\* adjacency.get(u, [])
AdjGet(adj, u) == IF u \in DOMAIN adj THEN adj[u] ELSE <<>>

\* adjacency.setdefault(u, []).append(e)
SetDefaultAppend(adj, u, e) ==
    [k \in DOMAIN adj \cup {u} |-> IF k = u THEN Append(AdjGet(adj, u), e) ELSE adj[k]]

\* _add_undirected_edge with the gain of u -> v copied to v -> u
add_undirected_edge_same_gain(adj, u, v, distance_m, road_type, elev_u, elev_v) ==
    LET elev_gain_uv == Max(elev_v - elev_u, 0)
        adj1 == SetDefaultAppend(adj, u, Edge(u, v, distance_m, road_type, elev_gain_uv))
    IN  SetDefaultAppend(adj1, v, Edge(v, u, distance_m, road_type, elev_gain_uv))

add_undirected_edge(adj, u, v, distance_m, road_type, elev_u, elev_v) ==
    LET elev_gain_uv == Max(elev_v - elev_u, 0)
        elev_gain_vu == Max(elev_u - elev_v, 0)
        adj1 == SetDefaultAppend(adj, u, Edge(u, v, distance_m, road_type, elev_gain_uv))
    IN  SetDefaultAppend(adj1, v, Edge(v, u, distance_m, road_type, elev_gain_vu))

\* One raw connection of G.edges(data=True): (u_osm, v_osm, edata).
Connection(u, v, length, highway) ==
    [u |-> u, v |-> v, length |-> length, highway |-> highway]

\* One iteration of build_graph's edge loop on the connection c.
build_graph_edge(ns, adj, c) ==
    IF c.length <= 0 THEN adj
    ELSE add_undirected_edge(adj, c.u, c.v, c.length, classify_road_type(c.highway),
                             ns[c.u].elevation, ns[c.v].elevation)

\* The call of _add_undirected_edge that iteration makes, if any.
CallOf(ns, c) ==
    [u |-> c.u, v |-> c.v, distance_m |-> c.length,
     road_type |-> classify_road_type(c.highway),
     elev_u |-> ns[c.u].elevation, elev_v |-> ns[c.v].elevation]

EmptyDict == [k \in {} |-> <<>>]

(***************************************************************************)
(* The graphs the routing functions are run on: the nodes 0..MaxNode with  *)
(* the elevations elev, and the adjacency build_graph's edge loop lays out *)
(* for a sequence of raw connections.                                      *)
(***************************************************************************)
RECURSIVE build_graph_edges(_, _, _, _)
build_graph_edges(ns, adj, conns, i) ==
    IF i > Len(conns) THEN adj
    ELSE build_graph_edges(ns, build_graph_edge(ns, adj, conns[i]), conns, i + 1)

GraphOf(elev, conns) ==
    LET ns == [id \in NodeIds |-> Node(id, 0, 0, elev[id])]
    IN  Graph(ns, build_graph_edges(ns, EmptyDict, conns, 1))

\* sequences of at most n elements of S
SeqsUpTo(S, n) == UNION {[1..k -> S] : k \in 0..n}

\* raw connections between two different nodes, with a highway tag of hws
Streets(hws) ==
    {Connection(p[1], p[2], l, h) :
        p \in {q \in NodeIds \X NodeIds : q[1] < q[2]}, l \in Lengths, h \in hws}

NodePairs == {q \in NodeIds \X NodeIds : q[1] < q[2]}

\* What G.edges may yield for the routing graphs: at most MaxStreets
\* connections, no connection twice (two connections between the same two
\* nodes differ in length, and come in either order), the node pairs in
\* ascending order.  The order of two connections between different pairs
\* decides only the order of edges to different neighbours in an adjacency
\* list, which no function of routing.py depends on.
StreetLists ==
    {sq \in SeqsUpTo(Streets({"residential"}), MaxStreets) :
        \A i, j \in 1..Len(sq) :
            (i < j) => /\ sq[i] # sq[j]
                       /\ \/ sq[i].u < sq[j].u
                          \/ sq[i].u = sq[j].u /\ sq[i].v <= sq[j].v}

(***************************************************************************)
(* routing.py: _dijkstra                                                   *)
(***************************************************************************)
NoneNode == -1
Inf == 1000000

\* dist.get(v, float("inf"))
DistGet(d, v) == IF v \in DOMAIN d THEN d[v] ELSE Inf

\* tuple(sorted((a, b)))
SortedPair(a, b) == IF a <= b THEN <<a, b>> ELSE <<b, a>>

\* edge_penalty.get(key, 1.0)
PenaltyGet(penalty, key) == IF key \in DOMAIN penalty THEN penalty[key] ELSE 1

\* dict[k] = x
DictSet(d, k, x) == [j \in DOMAIN d \cup {k} |-> IF j = k THEN x ELSE d[j]]

\* lines 52-55: the state of a run before its loop
DijkstraInit(s) ==
    [dist |-> DictSet(EmptyDict, s, 0),
     prev |-> DictSet(EmptyDict, s, NoneNode),
     heap |-> {<<0, s>>}]

\* heapq.heappop: the least (distance, node) tuple
HeapMin(h) ==
    CHOOSE p \in h : \A q \in h : p[1] < q[1] \/ (p[1] = q[1] /\ p[2] <= q[2])

\* lines 66-79 with the cutoff test of line 76 left out
RelaxEdge_no_cutoff(e, d, u, maxd, penalty, st) ==
    LET v == e.v
        base_w == e.distance_m
        nd == d + base_w * PenaltyGet(penalty, SortedPair(e.u, e.v))
    IN  IF base_w <= 0 THEN st
        ELSE IF nd < DistGet(st.dist, v)
             THEN [dist |-> DictSet(st.dist, v, nd),
                   prev |-> DictSet(st.prev, v, u),
                   heap |-> st.heap \cup {<<nd, v>>}]
             ELSE st

\* lines 66-79 with prev[v] kept once it is set
RelaxEdge_stale_prev(e, d, u, maxd, penalty, st) ==
    LET v == e.v
        base_w == e.distance_m
        nd == d + base_w * PenaltyGet(penalty, SortedPair(e.u, e.v))
    IN  IF base_w <= 0 THEN st
        ELSE IF nd < DistGet(st.dist, v) /\ nd <= maxd
             THEN [dist |-> DictSet(st.dist, v, nd),
                   prev |-> IF v \in DOMAIN st.prev THEN st.prev
                            ELSE DictSet(st.prev, v, u),
                   heap |-> st.heap \cup {<<nd, v>>}]
             ELSE st

\* lines 66-79: the body of the loop over u's edges, for the edge e
RelaxEdge(e, d, u, maxd, penalty, st) ==
    LET v == e.v
        base_w == e.distance_m
        nd == d + base_w * PenaltyGet(penalty, SortedPair(e.u, e.v))
    IN  IF base_w <= 0 THEN st
        ELSE IF nd < DistGet(st.dist, v) /\ nd <= maxd
             THEN [dist |-> DictSet(st.dist, v, nd),
                   prev |-> DictSet(st.prev, v, u),
                   heap |-> st.heap \cup {<<nd, v>>}]
             ELSE st

RECURSIVE RelaxEdges(_, _, _, _, _, _, _)
RelaxEdges(edges, i, d, u, maxd, penalty, st) ==
    IF i > Len(edges) THEN st
    ELSE RelaxEdges(edges, i + 1, d, u, maxd, penalty,
                    RelaxEdge(edges[i], d, u, maxd, penalty, st))

\* lines 58-79: one iteration of the while loop
DijkstraStep(adj, maxd, penalty, st) ==
    LET top == HeapMin(st.heap)
        d == top[1]
        u == top[2]
        st1 == [st EXCEPT !.heap = @ \ {top}]
    IN  IF d > DistGet(st.dist, u) THEN st1
        ELSE IF d > maxd THEN st1
        ELSE RelaxEdges(AdjGet(adj, u), 1, d, u, maxd, penalty, st1)

RECURSIVE DijkstraRun(_, _, _, _)
DijkstraRun(adj, maxd, penalty, st) ==
    IF st.heap = {} THEN st
    ELSE DijkstraRun(adj, maxd, penalty, DijkstraStep(adj, maxd, penalty, st))

\* _dijkstra(graph, start, max_dist, edge_penalty): [dist, prev]
dijkstra(g, s, maxd, penalty) ==
    LET st == DijkstraRun(g.adjacency, maxd, penalty, DijkstraInit(s))
    IN  [dist |-> st.dist, prev |-> st.prev]

(***************************************************************************)
(* routing.py: _reconstruct_path                                           *)
(***************************************************************************)
\* prev.get(cur)
PrevGet(p, c) == IF c \in DOMAIN p THEN p[c] ELSE NoneNode

\* path.reverse()
Reverse(sq) == [i \in 1..Len(sq) |-> sq[Len(sq) + 1 - i]]

\* The while loop of lines 89-91.  A walk longer than prev has keys is in a
\* cycle of prev, which the code's loop never leaves; the model stops it
\* there.
RECURSIVE ReconstructWalk(_, _, _)
ReconstructWalk(p, c, pth) ==
    IF c = NoneNode \/ Len(pth) > Cardinality(DOMAIN p) THEN pth
    ELSE ReconstructWalk(p, PrevGet(p, c), Append(pth, c))

\* _reconstruct_path(prev, target); None is the empty sequence
reconstruct_path(p, t) ==
    IF t \notin DOMAIN p THEN <<>>
    ELSE Reverse(ReconstructWalk(p, t, <<>>))

(***************************************************************************)
(* routing.py: edge_cost, _path_distance_and_elevation, find_best_loop     *)
(*                                                                         *)
(* Costs and scores are kept in units of 1/CostScale, in which the road    *)
(* type factors 0.9, 1.0 and 1.05 are the whole numbers 18, 20 and 21.     *)
(***************************************************************************)
CostScale == 20
MAX_CANDIDATES == 40

edge_cost(e) ==
    (IF e.road_type = "main_road" THEN 18 * e.distance_m
     ELSE IF e.road_type = "residential" THEN 20 * e.distance_m
     ELSE 21 * e.distance_m)
    + 3 * CostScale * Max(e.elevation_gain_m, 0)

RouteResult(ns, distance_m, elevation_gain_m, score) ==
    [nodes |-> ns, distance_m |-> distance_m, elevation_gain_m |-> elevation_gain_m,
     score |-> score]

\* None where a RouteResult is expected (a RouteResult has nodes)
NoResult == RouteResult(<<>>, 0, 0, 0)

\* lines 110-114: the first edge u -> v of u's list, as a set (empty: none)
FirstEdge(adj, u, v) ==
    LET es == AdjGet(adj, u)
        hits == {i \in 1..Len(es) : es[i].v = v}
    IN  IF hits = {} THEN {}
        ELSE {es[CHOOSE i \in hits : \A j \in hits : i <= j]}

\* lines 108-120: the loop, from the pair (ns[i], ns[i+1]) on
RECURSIVE PathTotals(_, _, _, _)
PathTotals(adj, ns, i, acc) ==
    IF i >= Len(ns) THEN acc
    ELSE LET found == FirstEdge(adj, ns[i], ns[i + 1])
         IN  IF found = {} THEN PathTotals(adj, ns, i + 1, acc)
             ELSE LET e == CHOOSE x \in found : TRUE
                  IN  PathTotals(adj, ns, i + 1,
                         [dist |-> acc.dist + e.distance_m,
                          elev |-> acc.elev + Max(e.elevation_gain_m, 0),
                          cost |-> acc.cost + edge_cost(e)])

path_distance_and_elevation(g, ns) ==
    IF Len(ns) < 2 THEN [dist |-> 0, elev |-> 0, cost |-> 0]
    ELSE PathTotals(g.adjacency, ns, 1, [dist |-> 0, elev |-> 0, cost |-> 0])

\* line 147 with the test left out
start_known_always(g, s) == TRUE

\* line 147: start in graph.nodes
start_known(g, s) == s \in DOMAIN g.nodes

\* lines 154-157: the (d, node_id) pairs of the candidate mid-points
CandidateSet(dfw, dmin, tgt) ==
    {<<dfw[n], n>> : n \in {m \in DOMAIN dfw : 2 * dmin <= 5 * dfw[m] /\ dfw[m] <= tgt}}

\* candidates.sort(reverse=True)
RECURSIVE SortReverse(_)
SortReverse(S) ==
    IF S = {} THEN <<>>
    ELSE LET top == CHOOSE p \in S :
                       \A q \in S : p[1] > q[1] \/ (p[1] = q[1] /\ p[2] >= q[2])
         IN  <<top>> \o SortReverse(S \ {top})

\* candidates[:MAX_CANDIDATES]
Take(sq, n) == SubSeq(sq, 1, Min(Len(sq), n))

\* lines 179-187: 4.0 for every undirected edge of the forward path
PenaltyFactor == 4

PenaltyOf(path_fw) ==
    [key \in {SortedPair(path_fw[i], path_fw[i + 1]) : i \in 1..(Len(path_fw) - 1)}
        |-> PenaltyFactor]

\* line 212 with v kept twice
assemble_loop_keep_v(path_fw, path_back) == path_fw \o path_back

\* line 212: path_fw + path_back[1:]
assemble_loop(path_fw, path_back) == path_fw \o Tail(path_back)

\* lines 218-221 with the upper distance bound left out
within_limits_no_max(total_dist, total_elev, dmin, dmax, elim) ==
    /\ ~(total_dist < dmin)
    /\ ~(total_elev > elim)

\* lines 218-221 with the elevation test left out
within_limits_no_elev(total_dist, total_elev, dmin, dmax, elim) ==
    ~(total_dist < dmin \/ total_dist > dmax)

\* lines 218-221: the candidate is not rejected
within_limits(total_dist, total_elev, dmin, dmax, elim) ==
    /\ ~(total_dist < dmin \/ total_dist > dmax)
    /\ ~(total_elev > elim)

\* lines 224-231: the reuse count of the pairs from index i on
RECURSIVE ReuseCount(_, _, _)
ReuseCount(ns, i, seen) ==
    IF i >= Len(ns) THEN 0
    ELSE LET key == SortedPair(ns[i], ns[i + 1])
         IN  IF key \in seen THEN 1 + ReuseCount(ns, i + 1, seen)
             ELSE ReuseCount(ns, i + 1, seen \cup {key})

\* lines 234-235
Score(total_cost, total_dist, tgt, reuse_count) ==
    LET deviation == IF total_dist >= tgt THEN total_dist - tgt ELSE tgt - total_dist
    IN  total_cost + 5 * CostScale * deviation * deviation
        + 300 * CostScale * reuse_count

\* lines 172-243: one turn of the for loop, for the candidate (dist_to_v, v).
\* The RouteResult the turn builds, NoResult where it continues; runs is the
\* number of _dijkstra calls it makes.
TryCandidate(g, s, dmin, dmax, elim, tgt, pfw, dist_to_v, v) ==
    LET path_fw == reconstruct_path(pfw, v)
        remaining_dist_budget == dmax - dist_to_v
        back == dijkstra(g, v, remaining_dist_budget, PenaltyOf(path_fw))
        path_back == reconstruct_path(back.prev, s)
        loop_nodes == assemble_loop(path_fw, path_back)
        totals == path_distance_and_elevation(g, loop_nodes)
    IN  IF Len(path_fw) < 2 THEN [result |-> NoResult, runs |-> 0]
        ELSE IF remaining_dist_budget <= 0 THEN [result |-> NoResult, runs |-> 0]
        ELSE IF s \notin DOMAIN back.dist THEN [result |-> NoResult, runs |-> 1]
        ELSE IF Len(path_back) < 2 THEN [result |-> NoResult, runs |-> 1]
        ELSE IF ~within_limits(totals.dist, totals.elev, dmin, dmax, elim)
             THEN [result |-> NoResult, runs |-> 1]
        ELSE [result |-> RouteResult(loop_nodes, totals.dist, totals.elev,
                            Score(totals.cost, totals.dist, tgt,
                                  ReuseCount(loop_nodes, 1, {}))),
              runs |-> 1]

\* lines 237-243 with every accepted loop taking the place of best
KeepBest_latest(b, r) ==
    IF r = NoResult THEN b ELSE r

\* lines 237-243
KeepBest(b, r) ==
    IF r = NoResult THEN b
    ELSE IF b = NoResult \/ r.score < b.score THEN r
    ELSE b

(***************************************************************************)
(* main.py: the local projection and the snap query                        *)
(*                                                                         *)
(* A latitude or longitude is a whole number of steps of 1/111320 degree.  *)
(* The graph centres of the model lie on the 60th parallel, where          *)
(* cos(lat0) = 1/2: a step of latitude is 1 m and a step of longitude      *)
(* 1/2 m.  x and y are whole numbers of 1/XYPerMetre m, and a distance is  *)
(* kept as its square.  Where the code divides floats the model divides    *)
(* whole numbers and rounds down, so, as in the code, a point taken to x/y *)
(* and back need not be the point it was.                                  *)
(***************************************************************************)
XYPerMetre == 2
k_lat == 2
k_lon == 1
max_step_m == 25
MAX_SNAP_DIST_M == 60

SnapPoint(lat, lon) == [lat |-> lat, lon |-> lon]

latlon_to_xy(lat, lon, lat0, lon0) ==
    [x |-> (lon - lon0) * k_lon, y |-> (lat - lat0) * k_lat]

xy_to_latlon(x, y, lat0, lon0) ==
    [lat |-> (y \div k_lat) + lat0, lon |-> (x \div k_lon) + lon0]

\* math.dist(a, b) ** 2 and math.hypot(dx, dy) ** 2
Dist2(ax, ay, bx, by) == (ax - bx) * (ax - bx) + (ay - by) * (ay - by)

\* _project_point_to_segment: (proj_x, proj_y, distance squared)
project_point_to_segment(px, py, x1, y1, x2, y2) ==
    LET vx == x2 - x1
        vy == y2 - y1
        wx == px - x1
        wy == py - y1
        seg_len2 == vx * vx + vy * vy
        dot == vx * wx + vy * wy
    IN  IF seg_len2 = 0 THEN [x |-> x1, y |-> y1, dist2 |-> Dist2(px, py, x1, y1)]
        ELSE LET proj_x == IF dot <= 0 THEN x1
                           ELSE IF dot >= seg_len2 THEN x1 + vx
                           ELSE x1 + ((dot * vx) \div seg_len2)
                 proj_y == IF dot <= 0 THEN y1
                           ELSE IF dot >= seg_len2 THEN y1 + vy
                           ELSE y1 + ((dot * vy) \div seg_len2)
             IN  [x |-> proj_x, y |-> proj_y, dist2 |-> Dist2(px, py, proj_x, proj_y)]

\* the keys of a dict in ascending order (the adjacency dicts of the model's
\* snap graphs get their keys in that order)
RECURSIVE KeysAscending(_)
KeysAscending(S) ==
    IF S = {} THEN <<>>
    ELSE LET k == CHOOSE x \in S : \A y \in S : x <= y
         IN  <<k>> \o KeysAscending(S \ {k})

\* for u, edges in graph.adjacency.items(): for e in edges
RECURSIVE EdgesInOrder(_, _, _)
EdgesInOrder(adj, keys, i) ==
    IF i > Len(keys) THEN <<>>
    ELSE adj[keys[i]] \o EdgesInOrder(adj, keys, i + 1)

\* lines 236-245
RECURSIVE SegmentsFrom(_, _, _, _)
SegmentsFrom(g, es, i, seen) ==
    IF i > Len(es) THEN <<>>
    ELSE LET e == es[i]
             key == SortedPair(e.u, e.v)
         IN  IF key \in seen THEN SegmentsFrom(g, es, i + 1, seen)
             ELSE <<[lat1 |-> g.nodes[e.u].lat, lon1 |-> g.nodes[e.u].lon,
                     lat2 |-> g.nodes[e.v].lat, lon2 |-> g.nodes[e.v].lon]>>
                  \o SegmentsFrom(g, es, i + 1, seen \cup {key})

\* _build_segments_for_snap
build_segments_for_snap(g) ==
    SegmentsFrom(g, EdgesInOrder(g.adjacency, KeysAscending(DOMAIN g.adjacency), 1), 1, {})

\* lines 274-276 with >= for >
interior_count_at_step(seg_len2, max_step) ==
    LET step == max_step * XYPerMetre
    IN  IF seg_len2 >= step * step
        THEN CHOOSE n \in 0..(seg_len2 \div (step * step)) :
                /\ (n * step) * (n * step) <= seg_len2
                /\ seg_len2 < ((n + 1) * step) * ((n + 1) * step)
        ELSE 0

\* lines 274-276: n = int(seg_len // max_step_m) when seg_len > max_step_m,
\* no interior point otherwise
interior_count(seg_len2, max_step) ==
    LET step == max_step * XYPerMetre
    IN  IF seg_len2 > step * step
        THEN CHOOSE n \in 0..(seg_len2 \div (step * step)) :
                /\ (n * step) * (n * step) <= seg_len2
                /\ seg_len2 < ((n + 1) * step) * ((n + 1) * step)
        ELSE 0

\* lines 262-282: p1 and the points put between p1 and p2
DensifyPair(p1, p2, max_step, lat0, lon0) ==
    LET a == latlon_to_xy(p1.lat, p1.lon, lat0, lon0)
        b == latlon_to_xy(p2.lat, p2.lon, lat0, lon0)
        dx == b.x - a.x
        dy == b.y - a.y
        n == interior_count(dx * dx + dy * dy, max_step)
    IN  <<p1>> \o [k \in 1..n |->
                     LET xi == a.x + ((dx * k) \div (n + 1))
                         yi == a.y + ((dy * k) \div (n + 1))
                         ll == xy_to_latlon(xi, yi, lat0, lon0)
                     IN  SnapPoint(ll.lat, ll.lon)]

RECURSIVE DensifyFrom(_, _, _, _, _)
DensifyFrom(points, i, max_step, lat0, lon0) ==
    IF i >= Len(points) THEN <<points[Len(points)]>>
    ELSE DensifyPair(points[i], points[i + 1], max_step, lat0, lon0)
         \o DensifyFrom(points, i + 1, max_step, lat0, lon0)

\* _densify_points
densify_points(points, max_step, lat0, lon0) ==
    IF Len(points) < 2 THEN points
    ELSE DensifyFrom(points, 1, max_step, lat0, lon0)

\* lines 321-332: the nearest projection so far, from segment i on
RECURSIVE BestProjection(_, _, _, _, _, _, _)
BestProjection(segs, i, px, py, lat0, lon0, bst) ==
    IF i > Len(segs) THEN bst
    ELSE LET a == latlon_to_xy(segs[i].lat1, segs[i].lon1, lat0, lon0)
             b == latlon_to_xy(segs[i].lat2, segs[i].lon2, lat0, lon0)
             pr == project_point_to_segment(px, py, a.x, a.y, b.x, b.y)
         IN  BestProjection(segs, i + 1, px, py, lat0, lon0,
                IF ~bst.found \/ pr.dist2 < bst.dist2
                THEN [found |-> TRUE, dist2 |-> pr.dist2, x |-> pr.x, y |-> pr.y]
                ELSE bst)

\* lines 319-342: what is appended to snapped_dense for the point p
snap_point(p, segs, lat0, lon0) ==
    LET q == latlon_to_xy(p.lat, p.lon, lat0, lon0)
        bst == BestProjection(segs, 1, q.x, q.y, lat0, lon0,
                              [found |-> FALSE, dist2 |-> 0, x |-> 0, y |-> 0])
        far == MAX_SNAP_DIST_M * XYPerMetre
    IN  IF ~bst.found \/ bst.dist2 > far * far THEN SnapPoint(p.lat, p.lon)
        ELSE LET ll == xy_to_latlon(bst.x, bst.y, lat0, lon0)
             IN  SnapPoint(ll.lat, ll.lon)

\* lines 345-347 left out
keep_ends_forgotten(snapped, points) == snapped

\* lines 345-347: the first and the last point are the user's
keep_ends(snapped, points) ==
    IF snapped = <<>> THEN snapped
    ELSE [i \in 1..Len(snapped) |->
            IF i = Len(snapped) THEN points[Len(points)]
            ELSE IF i = 1 THEN points[1]
            ELSE snapped[i]]

\* the variables a specification does not use
BuildIdle ==
    /\ nodes = EmptyDict
    /\ adjacency = EmptyDict
    /\ connections = <<>>
    /\ added = <<>>

DijkstraIdle ==
    /\ max_dist = 0
    /\ edge_penalty = EmptyDict
    /\ dist = EmptyDict
    /\ prev = EmptyDict
    /\ heap = {}
    /\ target = NoneNode
    /\ path = <<>>
    /\ cur = NoneNode

LoopIdle ==
    /\ d_min_m = 0
    /\ d_max_m = 0
    /\ elev_limit_m = 0
    /\ target_m = 0
    /\ dist_fw = EmptyDict
    /\ prev_fw = EmptyDict
    /\ candidates = <<>>
    /\ next_candidate = 0
    /\ best = NoResult
    /\ tried = <<>>
    /\ runs = 0

SnapIdle ==
    /\ graph_center_lat = 0
    /\ graph_center_lon = 0
    /\ pts = <<>>
    /\ dense_pts = <<>>
    /\ segments = <<>>
    /\ snapped_dense = <<>>
    /\ response = <<>>

SharedIdle ==
    /\ objects = <<>>
    /\ tkind = <<>>
    /\ treq = <<>>
    /\ tpc = <<>>
    /\ todo = <<>>
    /\ tbuild = <<>>
    /\ treads = <<>>
    /\ published = <<>>

RoutingIdle ==
    /\ SharedIdle
    /\ graph = Graph(EmptyDict, EmptyDict)
    /\ start = NoneNode
    /\ DijkstraIdle
    /\ LoopIdle
    /\ SnapIdle
    /\ pc = "idle"

(***************************************************************************)
(* SpecGraph: build_graph's node loop has run; its edge loop takes the     *)
(* raw connections one at a time.  build_graph stores 0.0 in every         *)
(* Node.elevation for now and reads it back for each connection; the model *)
(* lets the field hold any value of Elevations, 0 included.                *)
(***************************************************************************)
InitGraph ==
    /\ nodes \in {[id \in NodeIds |-> Node(id, 0, 0, elev[id])] :
                    elev \in [NodeIds -> Elevations]}
    /\ adjacency = EmptyDict
    /\ connections = <<>>
    /\ added = <<>>
    /\ RoutingIdle

BuildGraphEdge ==
    /\ Len(connections) < MaxConnections
    /\ \E u \in NodeIds, v \in NodeIds, length \in 0..MaxLength, highway \in Highways :
         LET c == Connection(u, v, length, highway) IN
         /\ connections' = Append(connections, c)
         /\ adjacency' = build_graph_edge(nodes, adjacency, c)
         /\ added' = IF c.length <= 0 THEN added ELSE Append(added, CallOf(nodes, c))
    /\ UNCHANGED <<nodes, offGraph>>

NextGraph == BuildGraphEdge

SpecGraph == InitGraph /\ [][NextGraph]_vars

(***************************************************************************)
(* SpecDijkstra: one run of _dijkstra, an iteration of its loop at a time, *)
(* then _reconstruct_path on its prev map for some target.                 *)
(***************************************************************************)
InitDijkstra ==
    /\ BuildIdle
    /\ SharedIdle
    /\ LoopIdle
    /\ SnapIdle
    /\ graph \in {GraphOf([id \in NodeIds |-> 0], conns) :
                    conns \in StreetLists}
    /\ start \in NodeIds
    /\ max_dist \in 0..MaxBudget
    /\ edge_penalty \in UNION {[keys -> {PenaltyFactor}] : keys \in SUBSET NodePairs}
    /\ dist = DijkstraInit(start).dist
    /\ prev = DijkstraInit(start).prev
    /\ heap = DijkstraInit(start).heap
    /\ target = NoneNode
    /\ path = <<>>
    /\ cur = NoneNode
    /\ pc = "dijkstra"

\* lines 57-79
DijkstraIter ==
    /\ pc = "dijkstra"
    /\ heap # {}
    /\ LET st == DijkstraStep(graph.adjacency, max_dist, edge_penalty,
                              [dist |-> dist, prev |-> prev, heap |-> heap])
       IN  /\ dist' = st.dist
           /\ prev' = st.prev
           /\ heap' = st.heap
    /\ UNCHANGED <<offDijkstra, graph, start, max_dist, edge_penalty, target, path, cur, pc>>

\* line 81
DijkstraReturn ==
    /\ pc = "dijkstra"
    /\ heap = {}
    /\ pc' = "returned"
    /\ UNCHANGED <<offDijkstra, graph, start, dijkstraVars>>

\* lines 85-88
ReconstructCall ==
    /\ pc = "returned"
    /\ \E t \in NodeIds :
         /\ target' = t
         /\ IF t \notin DOMAIN prev
            THEN pc' = "no_path" /\ cur' = cur
            ELSE pc' = "walk" /\ cur' = t
    /\ path' = <<>>
    /\ UNCHANGED <<offDijkstra, graph, start, max_dist, edge_penalty, dist, prev, heap>>

\* lines 89-91
ReconstructIter ==
    /\ pc = "walk"
    /\ cur # NoneNode
    /\ Len(path) <= MaxNode + 1
    /\ path' = Append(path, cur)
    /\ cur' = PrevGet(prev, cur)
    /\ UNCHANGED <<offDijkstra, graph, start, max_dist, edge_penalty, dist, prev, heap,
                   target, pc>>

\* lines 92-93
ReconstructReturn ==
    /\ pc = "walk"
    /\ cur = NoneNode
    /\ path' = Reverse(path)
    /\ pc' = "path"
    /\ UNCHANGED <<offDijkstra, graph, start, max_dist, edge_penalty, dist, prev, heap,
                   target, cur>>

NextDijkstra ==
    \/ DijkstraIter
    \/ DijkstraReturn
    \/ ReconstructCall
    \/ ReconstructIter
    \/ ReconstructReturn

SpecDijkstra == InitDijkstra /\ [][NextDijkstra]_vars

(***************************************************************************)
(* Spec: one call of find_best_loop, a turn of its candidate loop at a     *)
(* time.                                                                   *)
(***************************************************************************)
MaxDMin == 3
MaxDMax == 6
MaxTarget == 4
MaxElevLimit == 1

\* an id that is no node of the graph
UnknownNode == MaxNode + 1

Init ==
    /\ BuildIdle
    /\ SharedIdle
    /\ DijkstraIdle
    /\ SnapIdle
    /\ graph \in {GraphOf(elev, conns) :
                    elev \in [NodeIds -> Elevations],
                    conns \in StreetLists}
    /\ start \in {0, MaxNode, UnknownNode}
    /\ d_min_m \in {0, MaxDMin}
    /\ d_max_m \in (MaxDMax - 2)..MaxDMax
    /\ elev_limit_m \in 0..MaxElevLimit
    /\ target_m \in (MaxTarget - 1)..MaxTarget
    /\ dist_fw = EmptyDict
    /\ prev_fw = EmptyDict
    /\ candidates = <<>>
    /\ next_candidate = 0
    /\ best = NoResult
    /\ tried = <<>>
    /\ runs = 0
    /\ pc = "call"

\* lines 147-148
RaiseUnknownStart ==
    /\ pc = "call"
    /\ ~start_known(graph, start)
    /\ pc' = "raised"
    /\ UNCHANGED <<offLoop, graph, start, loopVars>>

\* lines 151-169
ForwardSearch ==
    /\ pc = "call"
    /\ start_known(graph, start)
    /\ LET fw == dijkstra(graph, start, d_max_m, EmptyDict)
           cands == SortReverse(CandidateSet(fw.dist, d_min_m, target_m))
       IN  /\ dist_fw' = fw.dist
           /\ prev_fw' = fw.prev
           /\ candidates' = Take(cands, MAX_CANDIDATES)
           /\ pc' = IF cands = <<>> THEN "returned" ELSE "loop"
    /\ runs' = runs + 1
    /\ next_candidate' = 1
    /\ UNCHANGED <<offLoop, graph, start, d_min_m, d_max_m,
                   elev_limit_m, target_m, best, tried>>

\* lines 171-243
CandidateTurn ==
    /\ pc = "loop"
    /\ next_candidate <= Len(candidates)
    /\ LET c == candidates[next_candidate]
           t == TryCandidate(graph, start, d_min_m, d_max_m, elev_limit_m, target_m,
                             prev_fw, c[1], c[2])
       IN  /\ best' = KeepBest(best, t.result)
           /\ tried' = Append(tried, [v |-> c[2], result |-> t.result])
           /\ runs' = runs + t.runs
    /\ next_candidate' = next_candidate + 1
    /\ UNCHANGED <<offLoop, graph, start, d_min_m, d_max_m,
                   elev_limit_m, target_m, dist_fw, prev_fw, candidates, pc>>

\* line 245
ReturnBest ==
    /\ pc = "loop"
    /\ next_candidate > Len(candidates)
    /\ pc' = "returned"
    /\ UNCHANGED <<offLoop, graph, start, loopVars>>

Next ==
    \/ RaiseUnknownStart
    \/ ForwardSearch
    \/ CandidateTurn
    \/ ReturnBest

Spec == Init /\ [][Next]_vars

(***************************************************************************)
(* SpecSnap: one snap query.  The graphs: no node; three nodes and no      *)
(* street; one street, 100 m along a parallel; that street and one of 80 m *)
(* along a meridian.                                                       *)
(***************************************************************************)
MaxPoints == 3

SnapNodes ==
    (0 :> Node(0, 0, 0, 0)) @@ (1 :> Node(1, 0, 200, 0)) @@ (2 :> Node(2, 80, 200, 0))

SnapGraphs ==
    {Graph(EmptyDict, EmptyDict),
     Graph(SnapNodes, EmptyDict),
     Graph(SnapNodes, build_graph_edges(SnapNodes, EmptyDict,
                         <<Connection(0, 1, 100, "residential")>>, 1)),
     Graph(SnapNodes, build_graph_edges(SnapNodes, EmptyDict,
                         <<Connection(0, 1, 100, "residential"),
                           Connection(1, 2, 80, "footway")>>, 1))}

\* the coordinates the user's points are taken from
UserPoints == {SnapPoint(lat, lon) : lat \in {0, 10, 70}, lon \in {0, 50, 130}}

InitSnap ==
    /\ BuildIdle
    /\ SharedIdle
    /\ DijkstraIdle
    /\ LoopIdle
    /\ start = NoneNode
    /\ graph \in SnapGraphs
    /\ graph_center_lat \in {0, 3}
    /\ graph_center_lon \in {0, 7}
    /\ pts \in SeqsUpTo(UserPoints, MaxPoints)
    /\ dense_pts = <<>>
    /\ segments = <<>>
    /\ snapped_dense = <<>>
    /\ response = <<>>
    /\ pc = "call"

\* lines 299-301
SnapEmptyGraph ==
    /\ pc = "call"
    /\ graph.nodes = EmptyDict
    /\ response' = pts
    /\ pc' = "done"
    /\ UNCHANGED <<offSnap, graph, graph_center_lat, graph_center_lon, pts, dense_pts,
                   segments, snapped_dense>>

\* lines 303-305
SnapNoPoints ==
    /\ pc = "call"
    /\ graph.nodes # EmptyDict
    /\ Len(pts) = 0
    /\ response' = <<>>
    /\ pc' = "done"
    /\ UNCHANGED <<offSnap, graph, graph_center_lat, graph_center_lon, pts, dense_pts,
                   segments, snapped_dense>>

\* line 308
SnapDensify ==
    /\ pc = "call"
    /\ graph.nodes # EmptyDict
    /\ Len(pts) # 0
    /\ dense_pts' = densify_points(pts, max_step_m, graph_center_lat, graph_center_lon)
    /\ pc' = "densified"
    /\ UNCHANGED <<offSnap, graph, graph_center_lat, graph_center_lon, pts, segments,
                   snapped_dense, response>>

\* lines 311-313, with segments
SnapSegments ==
    /\ pc = "densified"
    /\ build_segments_for_snap(graph) # <<>>
    /\ segments' = build_segments_for_snap(graph)
    /\ pc' = "snap"
    /\ UNCHANGED <<offSnap, graph, graph_center_lat, graph_center_lon, pts, dense_pts,
                   snapped_dense, response>>

\* lines 311-313, without
SnapNoSegments ==
    /\ pc = "densified"
    /\ build_segments_for_snap(graph) = <<>>
    /\ segments' = <<>>
    /\ response' = pts
    /\ pc' = "done"
    /\ UNCHANGED <<offSnap, graph, graph_center_lat, graph_center_lon, pts, dense_pts,
                   snapped_dense>>

\* lines 318-342: one turn of the loop over dense_pts
SnapOnePoint ==
    /\ pc = "snap"
    /\ Len(snapped_dense) < Len(dense_pts)
    /\ snapped_dense' = Append(snapped_dense,
           snap_point(dense_pts[Len(snapped_dense) + 1], segments,
                      graph_center_lat, graph_center_lon))
    /\ UNCHANGED <<offSnap, graph, graph_center_lat, graph_center_lon, pts, dense_pts,
                   segments, response, pc>>

\* lines 344-349
SnapReturn ==
    /\ pc = "snap"
    /\ Len(snapped_dense) = Len(dense_pts)
    /\ response' = keep_ends(snapped_dense, pts)
    /\ pc' = "done"
    /\ UNCHANGED <<offSnap, graph, graph_center_lat, graph_center_lon, pts, dense_pts,
                   segments, snapped_dense>>

NextSnap ==
    \/ SnapEmptyGraph
    \/ SnapNoPoints
    \/ SnapDensify
    \/ SnapSegments
    \/ SnapNoSegments
    \/ SnapOnePoint
    \/ SnapReturn

SpecSnap == InitSnap /\ [][NextSnap]_vars

(***************************************************************************)
(* SpecShared: MaxThreads worker threads serve one request each, at the    *)
(* same time, against the module globals graph, graph_center_lat and       *)
(* graph_center_lon of main.py (the handlers are plain functions, which    *)
(* the server runs in a thread pool).  A step is one read or one write of  *)
(* a global, or one turn of a loop of build_graph; the interpreter may     *)
(* switch threads between any two steps.  Here graph holds a reference:    *)
(* the number of the build_graph call that made the Graph, and objects     *)
(* holds what the dicts of each call hold now.  Coordinates are in         *)
(* hundredths of a degree.                                                 *)
(***************************************************************************)
MaxThreads == 2
Threads == 1..MaxThreads

\* graph_center_lat = 60.4500, graph_center_lon = 22.2660
DefaultCenter == <<6045, 2266>>

\* 0.03 ** 2, in hundredths of a degree squared
FarThreshold2 == 9

\* start_lat is None or start_lon is None
NoCoords == <<>>

\* start_lat, start_lon of the loop queries: near the default centre, and
\* far from it to the north and to the east
RequestCoords == {<<6046, 2267>>, <<6055, 2266>>, <<6045, 2276>>}

\* G.nodes(data=True) of the walking network around c, the node nearest to c
\* first: two nodes, and a third one in the north
osm_nodes(c) ==
    <<[y |-> c[1], x |-> c[2]], [y |-> c[1] + 1, x |-> c[2]]>>
      \o (IF c[1] > DefaultCenter[1] + 5
          THEN <<[y |-> c[1] + 1, x |-> c[2] + 1]>> ELSE <<>>)

\* G.edges(data=True) of that network, its ends taken through osm_to_id
osm_edges(c) ==
    <<Connection(0, 1, 1112, "residential")>>
      \o (IF c[1] > DefaultCenter[1] + 5
          THEN <<Connection(1, 2, 556, "footway")>> ELSE <<>>)

\* One turn of build_graph's node loop: the node nearest to the centre, which
\* comes first, is "home" (0), the node of index idx is "n<idx>".
build_graph_node(ns, c, idx) ==
    LET data == osm_nodes(c)[idx + 1]
    IN  [k \in DOMAIN ns \cup {idx} |->
            IF k = idx THEN Node(idx, data.y, data.x, 0) ELSE ns[k]]

RECURSIVE build_graph_nodes(_, _, _)
build_graph_nodes(ns, c, idx) ==
    IF idx >= Len(osm_nodes(c)) THEN ns
    ELSE build_graph_nodes(build_graph_node(ns, c, idx), c, idx + 1)

\* what build_graph(c[1], c[2]) returns
GraphAround(c) ==
    LET ns == build_graph_nodes(EmptyDict, c, 0)
    IN  Graph(ns, build_graph_edges(ns, EmptyDict, osm_edges(c), 1))

\* build_graph returns after its node loop, its edge loop not yet run
loops_done_after_nodes(idx, j, c) == idx = Len(osm_nodes(c))

\* build_graph has come to its return: idx nodes and j connections are done
loops_done(idx, j, c) ==
    /\ idx = Len(osm_nodes(c))
    /\ j = Len(osm_edges(c))

\* the keys of seen when the loops over graph.adjacency.items() are through
undirected_keys(adj) ==
    {SortedPair(e.u, e.v) :
        e \in UNION {{adj[k][i] : i \in 1..Len(adj[k])} : k \in DOMAIN adj}}

RECURSIVE Times(_, _)
Times(sq, n) == IF n = 0 THEN <<>> ELSE sq \o Times(sq, n - 1)

\* the read of a global at a line of main.py, and what it yields now
ReadOf(r) ==
    [line |-> r[1], var |-> r[2],
     value |-> IF r[2] = "graph" THEN graph
               ELSE IF r[2] = "graph_center_lat" THEN graph_center_lat
               ELSE graph_center_lon]

\* the reads one call of _latlon_to_xy or _xy_to_latlon at a line makes
CenterReads(line) == <<<<line, "graph_center_lat">>, <<line, "graph_center_lon">>>>

\* the reads of _densify_points for the two points of the snap query, which
\* are less than 25 m apart
DensifyReads == CenterReads(268) \o CenterReads(269)

\* the reads of the loops of _build_segments_for_snap over n segments
SegmentReads(n) == Times(<<<<243, "graph">>, <<244, "graph">>>>, n)

\* the reads of snap_route's loop over the two dense points and n segments,
\* both points within 60 m of a segment
ProjectReads(n) ==
    Times(CenterReads(319) \o Times(CenterReads(325) \o CenterReads(326), n)
            \o CenterReads(340), 2)

\* the graph a reference stands for
Deref(b) == objects[b].graph

NoBuild == [obj |-> 0, idx |-> 0, j |-> 0]

\* where a handler starts, and its first reads
EntryOf(kind, req) ==
    CASE kind = "get_route" /\ req # NoCoords ->
            [pc |-> "check", todo |-> CenterReads(74)]
      [] kind = "get_route" /\ req = NoCoords ->
            [pc |-> "search", todo |-> <<<<87, "graph">>>>]
      [] kind = "get_graph_edges" ->
            [pc |-> "items", todo |-> <<<<137, "graph">>>>]
      [] kind = "snap_route" ->
            [pc |-> "nodes", todo |-> <<<<299, "graph">>>>]

Requests ==
    {[kind |-> "get_route", req |-> r] : r \in RequestCoords \cup {NoCoords}}
      \cup {[kind |-> "get_graph_edges", req |-> NoCoords],
            [kind |-> "snap_route", req |-> NoCoords]}

InitShared ==
    /\ BuildIdle
    /\ DijkstraIdle
    /\ LoopIdle
    /\ start = NoneNode
    /\ pts = <<>>
    /\ dense_pts = <<>>
    /\ segments = <<>>
    /\ snapped_dense = <<>>
    /\ response = <<>>
    /\ pc = "serving"
    /\ objects = <<[graph |-> GraphAround(DefaultCenter), around |-> DefaultCenter]>>
    /\ graph = 1
    /\ graph_center_lat = DefaultCenter[1]
    /\ graph_center_lon = DefaultCenter[2]
    /\ published = (1 :> GraphAround(DefaultCenter))
    /\ \E rq \in [Threads -> Requests] :
         /\ tkind = [t \in Threads |-> rq[t].kind]
         /\ treq = [t \in Threads |-> rq[t].req]
         /\ tpc = [t \in Threads |-> EntryOf(rq[t].kind, rq[t].req).pc]
         /\ todo = [t \in Threads |-> EntryOf(rq[t].kind, rq[t].req).todo]
    /\ tbuild = [t \in Threads |-> NoBuild]
    /\ treads = [t \in Threads |-> <<>>]

\* thread t makes the next read of its current loop and goes on at pc_next
\* with the reads todo_next
TakeRead(t, pc_next, todo_next) ==
    /\ treads' = [treads EXCEPT ![t] = Append(@, ReadOf(Head(todo[t])))]
    /\ tpc' = [tpc EXCEPT ![t] = pc_next]
    /\ todo' = [todo EXCEPT ![t] = todo_next]
    /\ UNCHANGED <<offShared, graph, graph_center_lat, graph_center_lon, objects,
                   tkind, treq, tbuild, published>>

\* get_route, lines 73-76 and 81: d2 is made of one read of graph_center_lat
\* and one of graph_center_lon
GetRouteCheckCenter(t) ==
    /\ tpc[t] = "check"
    /\ LET rest == Tail(todo[t])
           lat0 == treads[t][Len(treads[t])].value
           d2 == (treq[t][1] - lat0) * (treq[t][1] - lat0)
                   + (treq[t][2] - graph_center_lon) * (treq[t][2] - graph_center_lon)
       IN  IF rest # <<>> THEN TakeRead(t, "check", rest)
           ELSE IF d2 > FarThreshold2 THEN TakeRead(t, "build", <<>>)
           ELSE TakeRead(t, "nearest", <<<<81, "graph">>>>)

\* get_route, line 77, into build_graph, lines 106-108: the empty dicts
BuildCall(t) ==
    /\ tpc[t] = "build"
    /\ objects' = Append(objects, [graph |-> Graph(EmptyDict, EmptyDict),
                                   around |-> treq[t]])
    /\ tbuild' = [tbuild EXCEPT ![t] = [obj |-> Len(objects) + 1, idx |-> 0, j |-> 0]]
    /\ tpc' = [tpc EXCEPT ![t] = "loops"]
    /\ UNCHANGED <<offShared, graph, graph_center_lat, graph_center_lon, tkind, treq,
                   todo, treads, published>>

\* build_graph, lines 82-104: the download fails, or yields no node
BuildRaise(t) ==
    /\ tpc[t] = "build"
    /\ tpc' = [tpc EXCEPT ![t] = "raised"]
    /\ UNCHANGED <<offShared, graph, graph_center_lat, graph_center_lon, objects,
                   tkind, treq, todo, tbuild, treads, published>>

\* build_graph, lines 111-129: one turn of the node loop
BuildNode(t) ==
    /\ tpc[t] = "loops"
    /\ LET b == tbuild[t].obj
           c == objects[b].around
       IN  /\ tbuild[t].idx < Len(osm_nodes(c))
           /\ objects' = [objects EXCEPT ![b].graph.nodes =
                              build_graph_node(@, c, tbuild[t].idx)]
    /\ tbuild' = [tbuild EXCEPT ![t].idx = @ + 1]
    /\ UNCHANGED <<offShared, graph, graph_center_lat, graph_center_lon, tkind, treq,
                   tpc, todo, treads, published>>

\* build_graph, lines 132-154: one turn of the edge loop
BuildEdge(t) ==
    /\ tpc[t] = "loops"
    /\ LET b == tbuild[t].obj
           c == objects[b].around
       IN  /\ tbuild[t].idx = Len(osm_nodes(c))
           /\ tbuild[t].j < Len(osm_edges(c))
           /\ objects' = [objects EXCEPT ![b].graph.adjacency =
                              build_graph_edge(objects[b].graph.nodes, @,
                                               osm_edges(c)[tbuild[t].j + 1])]
    /\ tbuild' = [tbuild EXCEPT ![t].j = @ + 1]
    /\ UNCHANGED <<offShared, graph, graph_center_lat, graph_center_lon, tkind, treq,
                   tpc, todo, treads, published>>

\* build_graph, line 160, and get_route, line 77: the Graph is made of the
\* two dicts and stored in graph
BuildReturn(t) ==
    /\ tpc[t] = "loops"
    /\ LET b == tbuild[t].obj
       IN  /\ loops_done(tbuild[t].idx, tbuild[t].j, objects[b].around)
           /\ graph' = b
           /\ published' = (b :> Deref(b)) @@ published
    /\ tpc' = [tpc EXCEPT ![t] = "set_lat"]
    /\ UNCHANGED <<offShared, graph_center_lat, graph_center_lon, objects, tkind,
                   treq, todo, tbuild, treads>>

\* get_route, line 78
SetCenterLat(t) ==
    /\ tpc[t] = "set_lat"
    /\ graph_center_lat' = treq[t][1]
    /\ tpc' = [tpc EXCEPT ![t] = "set_lon"]
    /\ UNCHANGED <<offShared, graph, graph_center_lon, objects, tkind, treq, todo,
                   tbuild, treads, published>>

\* get_route, line 79
SetCenterLon(t) ==
    /\ tpc[t] = "set_lon"
    /\ graph_center_lon' = treq[t][2]
    /\ tpc' = [tpc EXCEPT ![t] = "nearest"]
    /\ todo' = [todo EXCEPT ![t] = <<<<81, "graph">>>>]
    /\ UNCHANGED <<offShared, graph, graph_center_lat, objects, tkind, treq, tbuild,
                   treads, published>>

\* get_route, line 81: find_nearest_node_id(graph, ...)
GetRouteNearest(t) ==
    /\ tpc[t] = "nearest"
    /\ TakeRead(t, "search", <<<<87, "graph">>>>)

\* get_route, lines 86-100: find_best_loop(graph=graph, ...) finds a loop of
\* three nodes, or none (or raises), and then the request is over
GetRouteSearch(t) ==
    /\ tpc[t] = "search"
    /\ \E found \in BOOLEAN :
         IF found THEN TakeRead(t, "coords", Times(<<<<112, "graph">>>>, 3))
         ELSE TakeRead(t, "done", <<>>)

\* get_route, lines 111-113: one turn of the loop over result.nodes
GetRouteCoords(t) ==
    /\ tpc[t] = "coords"
    /\ LET rest == Tail(todo[t])
       IN  TakeRead(t, IF rest = <<>> THEN "done" ELSE "coords", rest)

\* get_graph_edges, line 137: graph.adjacency.items()
GetGraphEdgesItems(t) ==
    /\ tpc[t] = "items"
    /\ LET n == Cardinality(undirected_keys(Deref(graph).adjacency))
       IN  TakeRead(t, IF n = 0 THEN "done" ELSE "edge_nodes",
                    Times(<<<<145, "graph">>, <<146, "graph">>>>, n))

\* get_graph_edges, lines 145-146
GetGraphEdgesNodes(t) ==
    /\ tpc[t] = "edge_nodes"
    /\ LET rest == Tail(todo[t])
       IN  TakeRead(t, IF rest = <<>> THEN "done" ELSE "edge_nodes", rest)

\* snap_route, lines 299-308
SnapRouteNodes(t) ==
    /\ tpc[t] = "nodes"
    /\ IF Deref(graph).nodes = EmptyDict THEN TakeRead(t, "done", <<>>)
       ELSE TakeRead(t, "densify", DensifyReads)

\* _densify_points, lines 268-269
SnapRouteDensify(t) ==
    /\ tpc[t] = "densify"
    /\ LET rest == Tail(todo[t])
       IN  IF rest = <<>> THEN TakeRead(t, "segments", <<<<236, "graph">>>>)
           ELSE TakeRead(t, "densify", rest)

\* _build_segments_for_snap, line 236, and snap_route, lines 311-313
SnapRouteSegments(t) ==
    /\ tpc[t] = "segments"
    /\ LET n == Cardinality(undirected_keys(Deref(graph).adjacency))
       IN  TakeRead(t, IF n = 0 THEN "done" ELSE "segment_nodes",
                    SegmentReads(n) \o ProjectReads(n))

\* _build_segments_for_snap, lines 243-244
SnapRouteSegmentNodes(t) ==
    /\ tpc[t] = "segment_nodes"
    /\ LET rest == Tail(todo[t])
       IN  TakeRead(t, IF Head(rest)[2] = "graph" THEN "segment_nodes" ELSE "project",
                    rest)

\* snap_route, lines 318-342
SnapRouteProject(t) ==
    /\ tpc[t] = "project"
    /\ LET rest == Tail(todo[t])
       IN  TakeRead(t, IF rest = <<>> THEN "done" ELSE "project", rest)

NextShared ==
    \E t \in Threads :
        \/ GetRouteCheckCenter(t)
        \/ BuildCall(t)
        \/ BuildRaise(t)
        \/ BuildNode(t)
        \/ BuildEdge(t)
        \/ BuildReturn(t)
        \/ SetCenterLat(t)
        \/ SetCenterLon(t)
        \/ GetRouteNearest(t)
        \/ GetRouteSearch(t)
        \/ GetRouteCoords(t)
        \/ GetGraphEdgesItems(t)
        \/ GetGraphEdgesNodes(t)
        \/ SnapRouteNodes(t)
        \/ SnapRouteDensify(t)
        \/ SnapRouteSegments(t)
        \/ SnapRouteSegmentNodes(t)
        \/ SnapRouteProject(t)

SpecShared == InitShared /\ [][NextShared]_vars

(***************************************************************************)
(* Claims about the graph model (SpecGraph)                                *)
(***************************************************************************)
HasEdge(adj, u, v, distance_m, road_type, gain) ==
    \E i \in 1..Len(AdjGet(adj, u)) :
        adj[u][i] = Edge(u, v, distance_m, road_type, gain)

\* C6: every connection (u, v, d) added to the graph leaves both directed
\* edges u -> v and v -> u in the adjacency lists, with the same distance and
\* road type; gain(u -> v) is elev(v) - elev(u) when that is positive and 0
\* otherwise, and gain(v -> u) likewise with u and v exchanged.  So with
\* different elevations exactly one of the two gains is positive and the
\* other is 0, and with equal elevations both are 0.  Every Edge record of
\* the graph is one of these.
C6_SymmetricEdges ==
    /\ \A k \in 1..Len(added) :
         LET c == added[k]
             up == IF c.elev_v > c.elev_u THEN c.elev_v - c.elev_u ELSE 0
             down == IF c.elev_u > c.elev_v THEN c.elev_u - c.elev_v ELSE 0
         IN  /\ HasEdge(adjacency, c.u, c.v, c.distance_m, c.road_type, up)
             /\ HasEdge(adjacency, c.v, c.u, c.distance_m, c.road_type, down)
             /\ (c.elev_u # c.elev_v) => ((up > 0) <=> (down = 0))
             /\ (c.elev_u = c.elev_v) => (up = 0 /\ down = 0)
    /\ \A u \in DOMAIN adjacency : \A i \in 1..Len(adjacency[u]) :
         LET e == adjacency[u][i]
             back == IF nodes[e.u].elevation > nodes[e.v].elevation
                     THEN nodes[e.u].elevation - nodes[e.v].elevation ELSE 0
         IN  /\ e.u = u
             /\ e.distance_m > 0
             /\ HasEdge(adjacency, e.v, e.u, e.distance_m, e.road_type, back)
             /\ (e.elevation_gain_m > 0) => (back = 0)

\* a connection between two nodes of different elevation has been added
C6_Witness ==
    \E k \in 1..Len(added) :
        /\ added[k].elev_u < added[k].elev_v
        /\ added[k].u # added[k].v
        /\ HasEdge(adjacency, added[k].v, added[k].u, added[k].distance_m,
                   added[k].road_type, 0)

\* C7: no adjacency list of a graph build_graph makes holds two Edge records
\* with the same (u, v) pair, whatever the raw connections of positive
\* length were (a connection from a point to itself and several connections
\* between the same two points included).
C7_NoDuplicatePairs ==
    \A u \in DOMAIN adjacency : \A i, j \in 1..Len(adjacency[u]) :
        (i # j) => ~(adjacency[u][i].u = adjacency[u][j].u
                     /\ adjacency[u][i].v = adjacency[u][j].v)

(***************************************************************************)
(* Claims about _dijkstra and _reconstruct_path (SpecDijkstra)             *)
(***************************************************************************)
SetMin(S) == CHOOSE x \in S : \A y \in S : x <= y

\* The edges of adj, as a set.
EdgeSet(adj) == UNION {{adj[u][i] : i \in 1..Len(adj[u])} : u \in DOMAIN adj}

\* Shortest distances from s by k rounds of relaxing every edge at once
\* (Bellman-Ford), with each edge's length multiplied by its penalty; Inf
\* for a node no path reaches.
RECURSIVE Relaxed(_, _, _, _)
Relaxed(adj, penalty, k, d) ==
    IF k = 0 THEN d
    ELSE Relaxed(adj, penalty, k - 1,
            [v \in DOMAIN d |->
                SetMin({d[v]} \cup
                       {d[e.u] + e.distance_m * PenaltyGet(penalty, SortedPair(e.u, e.v)) :
                          e \in {x \in EdgeSet(adj) :
                                   x.v = v /\ x.u \in DOMAIN d /\ d[x.u] < Inf}})])

TrueDist(adj, penalty, s) ==
    Relaxed(adj, penalty, Cardinality(NodeIds),
            [n \in NodeIds \cup {s} |-> IF n = s THEN 0 ELSE Inf])

CutoffCorrect ==
    LET td == TrueDist(graph.adjacency, EmptyDict, start)
    IN  /\ \A n \in DOMAIN dist : dist[n] <= max_dist
        /\ \A n \in DOMAIN td :
              (td[n] <= max_dist) => (n \in DOMAIN dist /\ dist[n] = td[n])
        /\ \A n \in DOMAIN td :
              (td[n] > max_dist) => (n \notin DOMAIN dist /\ n \notin DOMAIN prev)

\* C3: a run of _dijkstra without penalties, on a graph of positive edge
\* lengths and with a cutoff D >= 0, returns a dist map that records no
\* distance above D, holds every node whose true shortest distance from the
\* source is at most D with exactly that distance, and holds no other node;
\* nor does prev.
C3_CutoffCorrect ==
    (pc # "dijkstra" /\ edge_penalty = EmptyDict) => CutoffCorrect

\* a finished run that reached a second node and left out a node the graph
\* connects to the source, but not within the cutoff
C3_Witness ==
    /\ pc = "returned"
    /\ edge_penalty = EmptyDict
    /\ Cardinality(DOMAIN dist) >= 2
    /\ \E n \in NodeIds :
         /\ n \notin DOMAIN dist
         /\ TrueDist(graph.adjacency, EmptyDict, start)[n] < Inf

\* C4: the prev map a run of _dijkstra returns, with or without penalties,
\* is a shortest-path tree: prev[source] is None; every other reached node n
\* has a reached prev[n], an edge prev[n] -> n, and dist[n] = dist[prev[n]] +
\* that edge's length times its penalty, which is the shortest penalised
\* distance of n.  So the walk of _reconstruct_path visits no node twice
\* (it ends within as many steps as prev has keys) and returns a path from
\* the source to the target; it returns None exactly when the target is no
\* key of prev.
C4_ShortestPathTree ==
    /\ (pc # "dijkstra") =>
         /\ DOMAIN prev = DOMAIN dist
         /\ start \in DOMAIN prev /\ prev[start] = NoneNode
         /\ \A n \in DOMAIN prev \ {start} :
              /\ prev[n] \in DOMAIN prev
              /\ \E e \in EdgeSet(graph.adjacency) :
                   /\ e.u = prev[n] /\ e.v = n
                   /\ dist[n] = dist[prev[n]]
                        + e.distance_m * PenaltyGet(edge_penalty, SortedPair(e.u, e.v))
         /\ \A n \in DOMAIN dist :
              dist[n] = TrueDist(graph.adjacency, edge_penalty, start)[n]
    /\ (pc = "walk") =>
         /\ target \in DOMAIN prev
         /\ Len(path) <= Cardinality(DOMAIN prev)
         /\ \A i, j \in 1..Len(path) : (i # j) => (path[i] # path[j])
         /\ (cur # NoneNode) => (Len(path) < Cardinality(DOMAIN prev))
    /\ (pc = "path") =>
         /\ target \in DOMAIN prev
         /\ Len(path) >= 1
         /\ path[1] = start /\ path[Len(path)] = target
         /\ \A i \in 1..(Len(path) - 1) : prev[path[i + 1]] = path[i]
         /\ path = reconstruct_path(prev, target)
    /\ (pc = "no_path") =>
         /\ target \notin DOMAIN prev
         /\ reconstruct_path(prev, target) = <<>>

\* a path of three nodes was reconstructed after a run in which the street
\* from the source straight to the target was penalised
C4_Witness ==
    /\ pc = "path"
    /\ Len(path) >= 3
    /\ SortedPair(start, target) \in DOMAIN edge_penalty
    /\ \E i \in 1..Len(AdjGet(graph.adjacency, start)) :
         graph.adjacency[start][i].v = target

C2_ClosedWalk ==
    (best # NoResult) =>
        /\ Len(best.nodes) >= 2
        /\ best.nodes[1] = start
        /\ best.nodes[Len(best.nodes)] = start
        /\ \A i \in 1..(Len(best.nodes) - 1) :
              \E k \in 1..Len(AdjGet(graph.adjacency, best.nodes[i])) :
                 /\ graph.adjacency[best.nodes[i]][k].u = best.nodes[i]
                 /\ graph.adjacency[best.nodes[i]][k].v = best.nodes[i + 1]

\* a loop around three streets was returned
C2_Witness ==
    /\ pc = "returned"
    /\ best # NoResult
    /\ Len(best.nodes) = 4
    /\ best.nodes[2] # best.nodes[3]
    /\ best.nodes[2] # start /\ best.nodes[3] # start

\* C9: with a start id that is no key of graph.nodes, find_best_loop raises
\* the unknown-start error whatever d_min, d_max, elev_limit and target are:
\* it has run no shortest-path search, holds no RouteResult and never
\* returns.  It raises that error in no other case.
C9_UnknownStartRaises ==
    /\ (start \notin DOMAIN graph.nodes) =>
         /\ pc \in {"call", "raised"}
         /\ (pc = "call") => ENABLED RaiseUnknownStart
         /\ runs = 0
         /\ best = NoResult
         /\ tried = <<>>
    /\ (pc = "raised") => (start \notin DOMAIN graph.nodes)

\* the error was raised on a graph that has streets
C9_Witness ==
    /\ pc = "raised"
    /\ start \notin DOMAIN graph.nodes
    /\ graph.adjacency # EmptyDict
    /\ runs = 0

\* node n is reached by the forward search at a distance in the tweakable range
InRange(n) ==
    /\ n \in DOMAIN dist_fw
    /\ 2 * d_min_m <= 5 * dist_fw[n]
    /\ dist_fw[n] <= target_m

\* the loops the turns of the for loop have accepted so far
Accepted ==
    {tried[i].result : i \in {k \in 1..Len(tried) : tried[k].result # NoResult}}

\* cost + 5 * (distance - target) ^ 2 + 300 * reuse_count of an accepted loop,
\* the reuse count being the steps of the loop less the streets it walks
LoopScore(r) ==
    LET steps == 1..(Len(r.nodes) - 1)
        streets == {SortedPair(r.nodes[i], r.nodes[i + 1]) : i \in steps}
    IN  path_distance_and_elevation(graph, r.nodes).cost
        + 5 * CostScale * (r.distance_m - target_m) * (r.distance_m - target_m)
        + 300 * CostScale * (Cardinality(steps) - Cardinality(streets))

C8_SnapKeepsEnds ==
    (pc = "done" /\ Len(pts) > 0) =>
        /\ Len(response) > 0
        /\ response[1] = pts[1]
        /\ response[Len(response)] = pts[Len(pts)]

\* a query was answered whose first and last points had both been snapped
\* to other coordinates
C8_Witness ==
    /\ pc = "done"
    /\ Len(pts) >= 2
    /\ Len(snapped_dense) >= 2
    /\ snapped_dense[1] # pts[1]
    /\ snapped_dense[Len(snapped_dense)] # pts[Len(pts)]
    /\ response[1] = pts[1]

\* the planar distance of two points, squared, in (1/XYPerMetre m)^2
PlanarDist2(p, q) ==
    ((q.lon - p.lon) * k_lon) * ((q.lon - p.lon) * k_lon)
    + ((q.lat - p.lat) * k_lat) * ((q.lat - p.lat) * k_lat)

\* floor(length / 25 m) of a length given by its square
StepsIn(d2) ==
    CHOOSE n \in 0..(d2 \div (25 * XYPerMetre)) :
        /\ (n * 25 * XYPerMetre) * (n * 25 * XYPerMetre) <= d2
        /\ d2 < ((n + 1) * 25 * XYPerMetre) * ((n + 1) * 25 * XYPerMetre)

RECURSIVE SumOver(_, _)
SumOver(f, S) ==
    IF S = {} THEN 0
    ELSE LET x == CHOOSE y \in S : TRUE IN f[x] + SumOver(f, S \ {x})

\* C10: _densify_points returns at least as many points as it is given, and
\* as many exactly when every consecutive pair is at most 25 m apart; a pair
\* farther apart gains floor(length / 25) >= 1 points; fewer than 2 points
\* are returned as they are.
C10_DensifyCount ==
    /\ (Len(pts) < 2) =>
         densify_points(pts, max_step_m, graph_center_lat, graph_center_lon) = pts
    /\ (pc \in {"densified", "snap", "done"} /\ Len(pts) > 0 /\ graph.nodes # EmptyDict) =>
         LET pairs == 1..(Len(pts) - 1)
             far == {i \in pairs : PlanarDist2(pts[i], pts[i + 1])
                                     > (25 * XYPerMetre) * (25 * XYPerMetre)}
             gain == [i \in pairs |->
                        IF i \in far THEN StepsIn(PlanarDist2(pts[i], pts[i + 1])) ELSE 0]
         IN  /\ Len(dense_pts) >= Len(pts)
             /\ (Len(dense_pts) = Len(pts)) <=> (far = {})
             /\ \A i \in far : gain[i] >= 1
             /\ Len(dense_pts) = Len(pts) + SumOver(gain, pairs)
             /\ (Len(pts) < 2) => (dense_pts = pts)

\* three points were densified: the first two 65 m or more apart, the last
\* two 25 m apart exactly
C10_Witness ==
    /\ pc = "densified"
    /\ Len(pts) = 3
    /\ StepsIn(PlanarDist2(pts[1], pts[2])) >= 2
    /\ PlanarDist2(pts[2], pts[3]) = (25 * XYPerMetre) * (25 * XYPerMetre)
    /\ Len(dense_pts) >= 5

(***************************************************************************)
(* Claims about the shared graph (SpecShared)                              *)
(***************************************************************************)
\* the dicts of call b hold all that build_graph puts into them
BuildComplete(b) == Deref(b) = GraphAround(objects[b].around)

\* the references thread t has read from graph so far
GraphReads(t) ==
    {treads[t][i].value : i \in {k \in 1..Len(treads[t]) : treads[t][k].var = "graph"}}

\* C5: while loop queries rebuild the shared graph and other requests run,
\* graph always refers to a completely built Graph, every reference a
\* request has read from graph is one that was stored there and refers to a
\* completely built Graph for as long as the request runs, and a Graph holds
\* after its publication exactly what it held at its publication.
C5_ReadsCompleteGraph ==
    /\ graph \in DOMAIN published
    /\ BuildComplete(graph)
    /\ \A t \in Threads : \A b \in GraphReads(t) :
         /\ b \in DOMAIN published
         /\ BuildComplete(b)
    /\ \A b \in DOMAIN published : Deref(b) = published[b]

\* an edge listing or a snap query has read the old Graph and then the new
\* one, which a loop query built and stored in between, and the two differ
C5_Witness ==
    \E t \in Threads :
        /\ tkind[t] # "get_route"
        /\ GraphReads(t) = {1, 2}
        /\ graph = 2
        /\ Deref(1) # Deref(2)
        /\ \E u \in Threads : tbuild[u].obj = 2

\* the references thread t has read from graph at the lines ls of main.py
GraphReadsAt(t, ls) ==
    {treads[t][i].value :
        i \in {k \in 1..Len(treads[t]) :
                  treads[t][k].var = "graph" /\ treads[t][k].line \in ls}}

\* C12: in a loop query that runs next to other loop queries, the Graph
\* find_nearest_node_id looks the start up in (line 81), the Graph given to
\* find_best_loop (line 87) and the Graph the node ids of the result are
\* resolved in (line 112) are one and the same instance, whatever another
\* request stores in graph in between.
C12_SameGraphInstance ==
    \A t \in Threads :
        (tkind[t] = "get_route") =>
            Cardinality(GraphReadsAt(t, {81, 87, 112})) <= 1

\* thread t serves a snap or a loop query, is under way, and is not itself
\* between the store of line 77 and that of line 79
Observing(t) ==
    /\ tkind[t] \in {"snap_route", "get_route"}
    /\ tpc[t] \notin {"done", "raised", "set_lat", "set_lon"}

\* C13: whenever a snap or a loop query is under way next to the request
\* that rebuilds the graph, graph_center_lat and graph_center_lon are the
\* coordinates the Graph now in graph was built around: never the new Graph
\* with the old center, never one new coordinate with one old one.
C13_ConsistentTriple ==
    (\E t \in Threads : Observing(t)) =>
        objects[graph].around = <<graph_center_lat, graph_center_lon>>

====
